---------------------------- MODULE Spec2Model ----------------------------
(***************************************************************************)
(* Least Squares Conformal Maps parameterization:                          *)
(* LSCM_parameterizer_3::parameterize and its helpers                      *)
(* (Surface_mesh_parameterization/include/CGAL/LSCM_parameterizer_3.h),    *)
(* together with the free function parameterize (parameterize.h).          *)
(*                                                                         *)
(* Numbers are exact integers.  The meshes of the catalogue are those on   *)
(* which project_triangle's square roots and divisions are exact, so the   *)
(* local bases and the row coefficients are the values the code computes.  *)
(***************************************************************************)
EXTENDS Integers, Sequences, FiniteSets, TLC

\* Largest coordinate of a (u,v) value the model represents: 0..MaxUV.
MaxUV == 2

UVRange == 0..MaxUV

\* Largest coordinate of a local basis applied on its own: a in 0..MaxZ,
\* c and d in -MaxZ..MaxZ.
MaxZ == 1

\* Largest value of an unknown the rows of a basis are evaluated at.
MaxX == 1

\* Largest coordinate of a point project_triangle is applied to on its own:
\* the points of the grid (0..MaxP)^3.
MaxP == 2

(***************************************************************************)
(* Vector_3 arithmetic used by project_triangle.                           *)
(***************************************************************************)
Sub3(p, q) == <<p[1] - q[1], p[2] - q[2], p[3] - q[3]>>

Dot3(p, q) == p[1] * q[1] + p[2] * q[2] + p[3] * q[3]

cross_product(p, q) ==
    <<p[2] * q[3] - p[3] * q[2],
      p[3] * q[1] - p[1] * q[3],
      p[1] * q[2] - p[2] * q[1]>>

\* std::sqrt on the values that have an exact root.
IsSquare(n) == \E r \in 0..n : r * r = n

Sqrt(n) == CHOOSE r \in 0..n : r * r = n

\* Exact division of an integer by a non-zero integer.
Divides(d, x) == \E q \in -(IF x < 0 THEN -x ELSE x)..(IF x < 0 THEN -x ELSE x) : q * d = x

Quot(x, d) ==
    LET ax == IF x < 0 THEN -x ELSE x
    IN  CHOOSE q \in -ax..ax : q * d = x

Div3(p, d) == <<Quot(p[1], d), Quot(p[2], d), Quot(p[3], d)>>

\* if(norm != 0.0) V = V / norm;
NormalizeBy(V, norm) == IF norm # 0 THEN Div3(V, norm) ELSE V

Normalize(V) == NormalizeBy(V, Sqrt(Dot3(V, V)))

\* z0, z1, z2 from the frame vectors X and Y.
ProjectXY(p0, p1, p2, X, Y) ==
    <<  <<0, 0>>,
        <<Sqrt(Dot3(Sub3(p1, p0), Sub3(p1, p0))), 0>>,
        <<Dot3(Sub3(p2, p0), X), Dot3(Sub3(p2, p0), Y)>>  >>

\* Y taken as X x Z.
MutProjectXZSwapped(p0, p1, p2, X, Z) ==
    ProjectXY(p0, p1, p2, X, cross_product(X, Z))

\* Y = Z x X.
ProjectXZ(p0, p1, p2, X, Z) == ProjectXY(p0, p1, p2, X, cross_product(Z, X))

\* Z = X x (p2 - p0), normalised unless its norm is 0.
ProjectX(p0, p1, p2, X) ==
    ProjectXZ(p0, p1, p2, X, Normalize(cross_product(X, Sub3(p2, p0))))

\* The local 2D basis <<z0, z1, z2>> of a triangle;
\* X = p1 - p0, normalised unless its norm is 0.
project_triangle(p0, p1, p2) == ProjectX(p0, p1, p2, Normalize(Sub3(p1, p0)))

\* The vectors whose norm is an exact root that divides them exactly.
ExactVector(V) ==
    /\ IsSquare(Dot3(V, V))
    /\ \A i \in 1..3 : Dot3(V, V) # 0 => Divides(Sqrt(Dot3(V, V)), V[i])

\* The triangles on which every square root and division above is exact.
ExactTriangle(p0, p1, p2) ==
    /\ ExactVector(Sub3(p1, p0))
    /\ ExactVector(cross_product(Normalize(Sub3(p1, p0)), Sub3(p2, p0)))

(***************************************************************************)
(* TriangleMesh: vertices 1..nv in the order of vertices(mesh), their      *)
(* points, the facets as the triples <<v0, v1, v2>> that                   *)
(* target(h0), target(next(h0)), target(next(next(h0))) give for           *)
(* h0 = halfedge(facet), and seed = face(opposite(bhd)).                   *)
(***************************************************************************)
TriMesh ==
    [name |-> "Tri", nv |-> 3,
     point |-> <<  <<0, 0, 0>>, <<1, 0, 0>>, <<0, 1, 0>>  >>,
     facet |-> <<  <<1, 2, 3>>  >>, seed |-> 1]

TriRotMesh ==
    [name |-> "TriRot", nv |-> 3,
     point |-> <<  <<0, 0, 0>>, <<1, 0, 0>>, <<0, 1, 0>>  >>,
     facet |-> <<  <<3, 1, 2>>  >>, seed |-> 1]

\* A flat triangle whose halfedges run clockwise seen from +z.
TriCWMesh ==
    [name |-> "TriCW", nv |-> 3,
     point |-> <<  <<1, 1, 0>>, <<1, 0, 0>>, <<0, 0, 0>>  >>,
     facet |-> <<  <<1, 2, 3>>  >>, seed |-> 1]

SquareMesh ==
    [name |-> "Square", nv |-> 4,
     point |-> <<  <<0, 0, 0>>, <<1, 0, 0>>, <<1, 1, 0>>, <<0, 1, 0>>  >>,
     facet |-> <<  <<1, 2, 3>>, <<3, 4, 1>>  >>, seed |-> 1]

\* Two triangles folded along the edge 1-2.
HingeMesh ==
    [name |-> "Hinge", nv |-> 4,
     point |-> <<  <<0, 0, 0>>, <<1, 0, 0>>, <<0, 1, 0>>, <<0, 0, 1>>  >>,
     facet |-> <<  <<1, 2, 3>>, <<2, 1, 4>>  >>, seed |-> 2]

\* A triangle and a zero-area triangle (three collinear points) on its
\* edge 1-2.
SliverMesh ==
    [name |-> "Sliver", nv |-> 4,
     point |-> <<  <<0, 0, 0>>, <<1, 0, 0>>, <<0, 1, 0>>, <<2, 0, 0>>  >>,
     facet |-> <<  <<1, 2, 3>>, <<2, 1, 4>>  >>, seed |-> 1]

\* Two connected components; bhd lies on the border of the first or of the
\* second.
TwoCompMesh(s) ==
    [name |-> "TwoComp", nv |-> 6,
     point |-> <<  <<0, 0, 0>>, <<1, 0, 0>>, <<0, 1, 0>>,
                   <<1, 1, 1>>, <<2, 1, 1>>, <<1, 2, 1>>  >>,
     facet |-> <<  <<1, 2, 3>>, <<4, 5, 6>>  >>, seed |-> s]

Catalogue ==
    {TriMesh, TriRotMesh, TriCWMesh, SquareMesh, HingeMesh, SliverMesh,
     TwoCompMesh(1), TwoCompMesh(2)}

vertices(m) == 1..m.nv

faces(m) == 1..Len(m.facet)

num_vertices(m) == m.nv

vertices_around_face(m, f) == m.facet[f]

FaceVertexSet(m, f) == {m.facet[f][1], m.facet[f][2], m.facet[f][3]}

ExactMesh(m) ==
    \A f \in faces(m) :
        ExactTriangle(m.point[m.facet[f][1]], m.point[m.facet[f][2]],
                      m.point[m.facet[f][3]])

Meshes == {m \in Catalogue : ExactMesh(m)}

(***************************************************************************)
(* Polygon_mesh_processing::connected_component and Containers_filler:     *)
(* the faces reachable from the seed face across shared edges, and the     *)
(* vertices of those faces.                                                *)
(***************************************************************************)
Adjacent(m, f, g) ==
    Cardinality(FaceVertexSet(m, f) \cap FaceVertexSet(m, g)) >= 2

RECURSIVE Reach(_, _)
Reach(m, S) ==
    LET T == S \cup {g \in faces(m) : \E f \in S : Adjacent(m, f, g)}
    IN  IF T = S THEN S ELSE Reach(m, T)

connected_component(m) == Reach(m, {m.seed})

ComponentVertices(m) ==
    UNION {FaceVertexSet(m, f) : f \in connected_component(m)}

\* The orders in which a one-shot enumeration can deliver the set S.
Orders(S) ==
    {s \in [1..Cardinality(S) -> S] :
        \A i, j \in 1..Cardinality(S) : s[i] = s[j] => i = j}

(***************************************************************************)
(* Vertex index maps.  Parameterization::Vertices numbers the vertices of  *)
(* the faces it is applied to; the free function parameterize hands the    *)
(* resulting unordered_map to the parameterizer as an associative property *)
(* map, whose get() on a missing key inserts the value-initialised int 0.  *)
(***************************************************************************)
\* The loop body without the test of new_element: the index is assigned and
\* advanced at every encounter.
MutVerticesInsertAlways(st, vd) ==
    [map |-> IF vd \in DOMAIN st.map
             THEN [st.map EXCEPT ![vd] = st.index]
             ELSE st.map @@ (vd :> st.index),
     index |-> st.index + 1]

\* One insert of the functor's loop body: st = [map, index].
VerticesInsert(st, vd) ==
    IF vd \in DOMAIN st.map
    THEN st
    ELSE [map |-> st.map @@ (vd :> st.index), index |-> st.index + 1]

VerticesCall(m, st, fd) ==
    LET vs == vertices_around_face(m, fd)
    IN  VerticesInsert(VerticesInsert(VerticesInsert(st, vs[1]), vs[2]), vs[3])

RECURSIVE VerticesFold(_, _, _, _)
VerticesFold(m, st, order, k) ==
    IF k > Len(order) THEN st
    ELSE VerticesFold(m, VerticesCall(m, st, order[k]), order, k + 1)

VerticesInit == [map |-> <<>>, index |-> 0]

AssocGet(map, vd) == IF vd \in DOMAIN map THEN map[vd] ELSE 0

FreeFunctionIndex(m, order) ==
    LET indices == VerticesFold(m, VerticesInit, order, 1).map
    IN  [vd \in vertices(m) |-> AssocGet(indices, vd)]

\* Index maps a direct caller of the member function supplies.
IdentityIndex(m) == [vd \in vertices(m) |-> vd - 1]

ReversedIndex(m) == [vd \in vertices(m) |-> m.nv - vd]

IndexMaps(m) ==
    {IdentityIndex(m), ReversedIndex(m)}
        \cup {FreeFunctionIndex(m, o) : o \in Orders(connected_component(m))}

(***************************************************************************)
(* Boundary pinning strategy (Border_param): what parameterize_border      *)
(* returns on this mesh and which vertices it pins at which (u,v).         *)
(***************************************************************************)
BorderErrors == {"ERROR_BORDER_TOO_SHORT", "ERROR_NO_TOPOLOGICAL_DISC"}

ErrorCodes == {"OK", "ERROR_CANNOT_SOLVE_LINEAR_SYSTEM"} \cup BorderErrors

OwnUV(m, vd) == <<m.point[vd][1], m.point[vd][2]>>

\* Two vertices pinned on the unit segment, the first one a vertex of the
\* component bhd lies on.
UnitPins(m) ==
    {(p[1] :> <<0, 0>>) @@ (p[2] :> <<1, 0>>) :
        p \in {q \in ComponentVertices(m) \X vertices(m) : q[1] # q[2]}}

\* Two vertices, or the three vertices of a facet, pinned at their own (x,y).
OwnPins(m) ==
    {[vd \in P |-> OwnUV(m, vd)] :
        P \in {Q \in SUBSET vertices(m) :
                 /\ \/ Cardinality(Q) = 2
                    \/ \E f \in faces(m) : Q = FaceVertexSet(m, f)
                 /\ \E a, b \in Q : OwnUV(m, a) # OwnUV(m, b)}}

\* A failing strategy has pinned no vertex or a single one.
FailedPins(m) == {<<>>} \cup {(a :> <<0, 0>>) : a \in vertices(m)}

BorderOutcomes(m) ==
    {[status |-> "OK", pins |-> p] : p \in UnitPins(m) \cup OwnPins(m)}
        \cup {[status |-> e, pins |-> p] : e \in BorderErrors, p \in FailedPins(m)}

(***************************************************************************)
(* Sparse least-squares solver (OpenNL::LinearSolver over Sparse_LA).      *)
(* A row is [face, part, coef]: coef is the sequence of                    *)
(* <<unknown index, coefficient>> pairs given to add_coefficient; face and *)
(* part record which call of setup_triangle_relations added it.            *)
(***************************************************************************)
SolverKinds == {"fails", "lexmin", "lexmax"}

RECURSIVE SumSeq(_, _)
SumSeq(s, k) == IF k > Len(s) THEN 0 ELSE s[k] + SumSeq(s, k + 1)

\* The left-hand side of one row at x.
Residual(row, x) ==
    SumSeq([k \in 1..Len(row.coef) |-> row.coef[k][2] * x[row.coef[k][1]]], 1)

\* The coefficient of unknown i in a row (add_coefficient accumulates).
RowCoef(row, i) ==
    SumSeq([k \in 1..Len(row.coef) |->
               IF row.coef[k][1] = i THEN row.coef[k][2] ELSE 0], 1)

\* Entry (j, i) of the normal matrix A^T A.
NormalEntry(rws, j, i) ==
    SumSeq([r \in 1..Len(rws) |-> RowCoef(rws[r], j) * RowCoef(rws[r], i)], 1)

\* Row j of A^T A as the sequence of its entries i, i+1, ..., size-1.
RECURSIVE NormalRowFrom(_, _, _, _)
NormalRowFrom(rws, j, i, size) ==
    IF i = size THEN <<>>
    ELSE <<NormalEntry(rws, j, i)>> \o NormalRowFrom(rws, j, i + 1, size)

\* A^T A as the sequence of its rows j, j+1, ..., size-1.
RECURSIVE NormalFrom(_, _, _)
NormalFrom(rws, j, size) ==
    IF j = size THEN <<>>
    ELSE <<NormalRowFrom(rws, j, 0, size)>> \o NormalFrom(rws, j + 1, size)

\* The free unknowns that some row mentions (non-zero column), from i on,
\* in ascending order.
RECURSIVE FreeFrom(_, _, _, _)
FreeFrom(N, locked, i, size) ==
    IF i = size THEN <<>>
    ELSE (IF ~locked[i] /\ N[i + 1][i + 1] # 0 THEN <<i>> ELSE <<>>)
            \o FreeFrom(N, locked, i + 1, size)

\* What the locked unknowns contribute to component n of the gradient.
RECURSIVE LockedDot(_, _, _, _, _)
LockedDot(n, value, locked, i, size) ==
    IF i = size THEN 0
    ELSE (IF locked[i] THEN n[i + 1] * value[i] ELSE 0)
            + LockedDot(n, value, locked, i + 1, size)

\* The contribution of the locked unknowns to each component of the gradient.
RECURSIVE LockedFrom(_, _, _, _, _)
LockedFrom(N, value, locked, j, size) ==
    IF j = size THEN <<>>
    ELSE <<LockedDot(N[j + 1], value, locked, 0, size)>>
            \o LockedFrom(N, value, locked, j + 1, size)

RECURSIVE FreeDot(_, _, _, _)
FreeDot(n, g, free, k) ==
    IF k > Len(free) THEN 0
    ELSE n[free[k] + 1] * g[free[k]] + FreeDot(n, g, free, k + 1)

\* g minimises the sum of the squared residuals over the free unknowns:
\* the gradient A^T (A x) vanishes on them.
IsMinimiser(N, B, free, g) ==
    \A k \in 1..Len(free) :
        FreeDot(N[free[k] + 1], g, free, 1) + B[free[k] + 1] = 0

MinimisersOver(N, B, free, value) ==
    {[i \in DOMAIN value |-> IF i \in DOMAIN g THEN g[i] ELSE value[i]] :
        g \in {h \in [{free[k] : k \in 1..Len(free)} -> UVRange] :
                  IsMinimiser(N, B, free, h)}}

MinimisersOn(N, value, locked) ==
    MinimisersOver(N, LockedFrom(N, value, locked, 0, Len(N)),
                   FreeFrom(N, locked, 0, Len(N)), value)

\* The least-squares minimisers with representable values: locked unknowns
\* and unknowns no row mentions keep their value.
Minimisers(rws, value, locked) ==
    MinimisersOn(NormalFrom(rws, 0, Cardinality(DOMAIN value)), value, locked)

RECURSIVE Power(_, _)
Power(b, e) == IF e = 0 THEN 1 ELSE b * Power(b, e - 1)

\* Position of x in the lexicographic order of the value vectors.
LexKey(x) ==
    SumSeq([k \in 1..Cardinality(DOMAIN x) |->
               x[k - 1] * Power(MaxUV + 1, Cardinality(DOMAIN x) - k)], 1)

\* The least and the greatest of a set of keys.
MinKey(K) == CHOOSE k \in K : \A j \in K : k <= j

MaxKey(K) == CHOOSE k \in K : \A j \in K : k >= j

\* The element of M at position key.
PickByKey(M, key) == CHOOSE x \in M : LexKey(x) = key

\* The minimiser a solver of the given kind returns among M: the first or
\* the last in lexicographic order.
PickMinimiser(kind, M) ==
    IF kind = "lexmin"
    THEN PickByKey(M, MinKey({LexKey(x) : x \in M}))
    ELSE PickByKey(M, MaxKey({LexKey(x) : x \in M}))

SolveAmong(kind, value, M) ==
    IF kind = "fails" \/ M = {}
    THEN [ok |-> FALSE, value |-> value]
    ELSE [ok |-> TRUE, value |-> PickMinimiser(kind, M)]

\* solve(): [ok, value].
SolverSolve(kind, rws, value, locked) ==
    SolveAmong(kind, value, Minimisers(rws, value, locked))

\* LeastSquaresSolver solver(2 * nbVertices): every variable 0 and free.
\* calls lists the member functions invoked on the solver, in order.
NewSolver(size) ==
    [state |-> "initial", size |-> size, least_squares |-> FALSE,
     value |-> [i \in 0..(size - 1) |-> 0],
     locked |-> [i \in 0..(size - 1) |-> FALSE],
     rows |-> <<>>, nsolve |-> 0, calls |-> <<"construct">>]

\* No solver object exists before parameterize constructs one.
NoSolver ==
    [state |-> "none", size |-> 0, least_squares |-> FALSE,
     value |-> <<>>, locked |-> <<>>, rows |-> <<>>, nsolve |-> 0,
     calls |-> <<>>]

set_least_squares(sv, flag) ==
    [sv EXCEPT !.least_squares = flag,
               !.calls = Append(@, IF flag THEN "set_least_squares(true)"
                                           ELSE "set_least_squares(false)")]

set_value(sv, i, val) ==
    [sv EXCEPT !.value[i] = val, !.calls = Append(@, "set_value")]

lock(sv, i) == [sv EXCEPT !.locked[i] = TRUE, !.calls = Append(@, "lock")]

\* variable(i).value(): the solver with the read recorded.
value_read(sv, i) == [sv EXCEPT !.calls = Append(@, "value")]

begin_system(sv) ==
    [sv EXCEPT !.state = "in_system", !.calls = Append(@, "begin_system")]

end_system(sv) ==
    [sv EXCEPT !.state = "constructed", !.calls = Append(@, "end_system")]

\* begin_row(), one add_coefficient per coefficient of the row, end_row().
add_row(sv, row) ==
    [sv EXCEPT !.rows = Append(@, row),
               !.calls = @ \o <<"begin_row">>
                           \o [k \in 1..Len(row.coef) |-> "add_coefficient"]
                           \o <<"end_row">>]

solve(sv, kind) ==
    LET r == SolverSolve(kind, sv.rows, sv.value, sv.locked)
    IN  [ok |-> r.ok,
         solver |-> [sv EXCEPT !.value = r.value,
                               !.nsolve = @ + 1,
                               !.calls = Append(@, IF r.ok THEN "solve_true"
                                                           ELSE "solve_false"),
                               !.state = IF r.ok THEN "solved" ELSE @]]

(***************************************************************************)
(* LSCM_parameterizer_3                                                    *)
(***************************************************************************)
\* parameterize_border of the strategy bp: [status, uvmap, vpmap].
parameterize_border(m, uv, vp, bp) ==
    [status |-> bp.status,
     uvmap  |-> [vd \in vertices(m) |->
                    IF vd \in DOMAIN bp.pins THEN bp.pins[vd] ELSE uv[vd]],
     vpmap  |-> [vd \in vertices(m) |-> vp[vd] \/ vd \in DOMAIN bp.pins]]

\* The status checks left out.
MutReturnsNever(st) == FALSE

\* The status checks inverted.
MutReturnsOnOK(st) == st = "OK"

\* Only ERROR_BORDER_TOO_SHORT makes parameterize return.
MutReturnsOnTooShort(st) == st = "ERROR_BORDER_TOO_SHORT"

\* if(status != Base::OK) return status;
ReturnsStatus(st) == st # "OK"

\* The loop body locking only the u unknown of a pinned vertex.
MutInitializeVertexLockU(sv, uv, vi, vp, v) ==
    LET index  == vi[v]
        seeded == set_value(set_value(sv, 2 * index, uv[v][1]),
                            2 * index + 1, uv[v][2])
    IN  IF vp[v] THEN lock(seeded, 2 * index) ELSE seeded

\* The body of the loop of initialize_system_from_mesh_border for vertex v.
InitializeVertex(sv, uv, vi, vp, v) ==
    LET index  == vi[v]
        seeded == set_value(set_value(sv, 2 * index, uv[v][1]),
                            2 * index + 1, uv[v][2])
    IN  IF vp[v]
        THEN lock(lock(seeded, 2 * index), 2 * index + 1)
        ELSE seeded

RECURSIVE InitializeFrom(_, _, _, _, _, _)
InitializeFrom(sv, m, uv, vi, vp, v) ==
    IF v > num_vertices(m) THEN sv
    ELSE InitializeFrom(InitializeVertex(sv, uv, vi, vp, v), m, uv, vi, vp, v + 1)

initialize_system_from_mesh_border(sv, m, uv, vi, vp) ==
    InitializeFrom(sv, m, uv, vi, vp, 1)

\* RowPair with the imaginary row's last coefficient put on u2, not v2.
MutRowPairImagOnU2(fd, u0_id, v0_id, u1_id, v1_id, u2_id, v2_id, a, b, c, d) ==
    <<[face |-> fd, part |-> "real",
       coef |-> <<  <<u0_id, -a + c>>, <<v0_id, b - d>>, <<u1_id, -c>>,
                    <<v1_id, d>>, <<u2_id, a>>  >>],
      [face |-> fd, part |-> "imaginary",
       coef |-> <<  <<u0_id, -b + d>>, <<v0_id, -a + c>>, <<u1_id, -d>>,
                    <<v1_id, -c>>, <<u2_id, a>>  >>]>>

\* RowPair with the sign of d lost in the real row's v0 coefficient.
MutRowPairSignOfD(fd, u0_id, v0_id, u1_id, v1_id, u2_id, v2_id, a, b, c, d) ==
    <<[face |-> fd, part |-> "real",
       coef |-> <<  <<u0_id, -a + c>>, <<v0_id, b + d>>, <<u1_id, -c>>,
                    <<v1_id, d>>, <<u2_id, a>>  >>],
      [face |-> fd, part |-> "imaginary",
       coef |-> <<  <<u0_id, -b + d>>, <<v0_id, -a + c>>, <<u1_id, -d>>,
                    <<v1_id, -c>>, <<v2_id, a>>  >>]>>

\* RowPair with the sign of c lost in the real row's u1 coefficient.
MutRowPairSignOfC(fd, u0_id, v0_id, u1_id, v1_id, u2_id, v2_id, a, b, c, d) ==
    <<[face |-> fd, part |-> "real",
       coef |-> <<  <<u0_id, -a + c>>, <<v0_id, b - d>>, <<u1_id, c>>,
                    <<v1_id, d>>, <<u2_id, a>>  >>],
      [face |-> fd, part |-> "imaginary",
       coef |-> <<  <<u0_id, -b + d>>, <<v0_id, -a + c>>, <<u1_id, -d>>,
                    <<v1_id, -c>>, <<v2_id, a>>  >>]>>

\* The rows with the coefficient of u2 left out of the real row.
MutRowPairOmitsU2(fd, u0_id, v0_id, u1_id, v1_id, u2_id, v2_id, a, b, c, d) ==
    <<[face |-> fd, part |-> "real",
       coef |-> <<  <<u0_id, -a + c>>, <<v0_id, b - d>>, <<u1_id, -c>>,
                    <<v1_id, d>>  >>],
      [face |-> fd, part |-> "imaginary",
       coef |-> <<  <<u0_id, -b + d>>, <<v0_id, -a + c>>, <<u1_id, -d>>,
                    <<v1_id, -c>>, <<v2_id, a>>  >>]>>

\* The two rows of a triangle, from the unknowns' indices and
\* (a,b) = z1 - z0, (c,d) = z2 - z0.
RowPair(fd, u0_id, v0_id, u1_id, v1_id, u2_id, v2_id, a, b, c, d) ==
    <<[face |-> fd, part |-> "real",
       coef |-> <<  <<u0_id, -a + c>>, <<v0_id, b - d>>, <<u1_id, -c>>,
                    <<v1_id, d>>, <<u2_id, a>>  >>],
      [face |-> fd, part |-> "imaginary",
       coef |-> <<  <<u0_id, -b + d>>, <<v0_id, -a + c>>, <<u1_id, -d>>,
                    <<v1_id, -c>>, <<v2_id, a>>  >>]>>

\* 2*index --> u, 2*index + 1 --> v; z01 = z1 - z0, z02 = z2 - z0.
RowsOfBasis(fd, id0, id1, id2, z) ==
    RowPair(fd, 2 * id0, 2 * id0 + 1, 2 * id1, 2 * id1 + 1, 2 * id2, 2 * id2 + 1,
            z[2][1] - z[1][1], z[2][2] - z[1][2],
            z[3][1] - z[1][1], z[3][2] - z[1][2])

\* The two rows setup_triangle_relations adds for the facet fd with
\* vertices v0, v1, v2.
RowsOfVertices(m, fd, vi, v0, v1, v2) ==
    RowsOfBasis(fd, vi[v0], vi[v1], vi[v2],
                project_triangle(m.point[v0], m.point[v1], m.point[v2]))

TriangleRows(m, fd, vi) ==
    RowsOfVertices(m, fd, vi, m.facet[fd][1], m.facet[fd][2], m.facet[fd][3])

\* setup_triangle_relations that rejects a triangle whose z2 is on the
\* local x-axis.
MutSetupRejectsZeroArea(sv, m, fd, vi) ==
    LET rws == TriangleRows(m, fd, vi)
    IN  IF RowCoef(rws[1], 2 * vi[m.facet[fd][2]] + 1) = 0
        THEN [status |-> "ERROR_NON_TRIANGULAR_MESH", solver |-> sv]
        ELSE [status |-> "OK", solver |-> add_row(add_row(sv, rws[1]), rws[2])]

\* setup_triangle_relations that adds the real row only.
MutSetupRealRowOnly(sv, m, fd, vi) ==
    [status |-> "OK", solver |-> add_row(sv, TriangleRows(m, fd, vi)[1])]

\* setup_triangle_relations: [status, solver].
setup_triangle_relations(sv, m, fd, vi) ==
    LET rws == TriangleRows(m, fd, vi)
    IN  [status |-> "OK", solver |-> add_row(add_row(sv, rws[1]), rws[2])]

\* The result of solve() ignored.
MutStatusKept(ok, st) == st

\* if(! solver.solve()) status = Base::ERROR_CANNOT_SOLVE_LINEAR_SYSTEM;
StatusAfterSolve(ok, st) ==
    IF ~ok THEN "ERROR_CANNOT_SOLVE_LINEAR_SYSTEM" ELSE st

\* Write-back over vertices(mesh), as the former set_mesh_uv_from_system.
MutWriteBackAllVertices(m, ccv) == vertices(m)

\* The vertices the write-back loop visits.
WriteBackVertices(m, ccv) == ccv

\* Contents of a caller's (u,v) map before the call.
InitialUVMaps(m) ==
    {[vd \in vertices(m) |-> <<0, 0>>],
     [vd \in vertices(m) |-> <<vd % (MaxUV + 1), MaxUV>>]}

VARIABLES
    mesh,          \* the TriangleMesh and bhd
    vimap,         \* VertexIndexMap
    uvmap,         \* VertexUVmap
    vpmap,         \* VertexParameterizedMap
    m_borderParameterizer,  \* outcome of the Border_param object on mesh
    m_linearAlgebra,        \* kind of Sparse_LA the solver runs on
    pc,            \* state of the orchestrator
    status,        \* the local Error_code
    result,        \* the value parameterize returned, "NONE" before it returns
    solver,        \* the LeastSquaresSolver
    ccfaces,       \* faces the enumerator delivered
    ccvertices,    \* vertices the enumerator delivered
    todo,          \* faces the assembly loop has not visited yet
    written,       \* vertices the write-back loop has visited
    uvAtBorder,    \* the (u,v) map as parameterize_border left it
    hist,          \* the states gone through
    call           \* a helper applied on its own: its inputs and its result

vars ==
    <<mesh, vimap, uvmap, vpmap, m_borderParameterizer, m_linearAlgebra, pc,
      status, result, solver, ccfaces, ccvertices, todo, written, uvAtBorder,
      hist, call>>

\* The variables of a call of parameterize.
pvars ==
    <<mesh, vimap, uvmap, vpmap, m_borderParameterizer, m_linearAlgebra, pc,
      status, result, solver, ccfaces, ccvertices, todo, written, uvAtBorder,
      hist>>

\* No helper is applied on its own while parameterize runs.
NoCall == [op |-> "none"]

inputs == <<mesh, vimap, m_borderParameterizer, m_linearAlgebra>>

\* u and v read from each other's unknown.
MutSolutionUVSwapped(sv, vi, vd) ==
    LET index == vi[vd]
    IN  <<sv.value[2 * index + 1], sv.value[2 * index]>>

\* The unknowns indexed by a counter of the write-back loop's iterations.
MutSolutionUVCounter(sv, vi, vd) ==
    LET index == Cardinality(written)
    IN  <<sv.value[2 * index], sv.value[2 * index + 1]>>

\* Point_2(u,v) read back for vertex vd.
SolutionUV(sv, vi, vd) ==
    LET index == vi[vd]
    IN  <<sv.value[2 * index], sv.value[2 * index + 1]>>

Init ==
    /\ mesh \in Meshes
    /\ vimap \in IndexMaps(mesh)
    /\ uvmap \in InitialUVMaps(mesh)
    /\ vpmap = [vd \in vertices(mesh) |-> FALSE]
    /\ m_borderParameterizer \in BorderOutcomes(mesh)
    /\ m_linearAlgebra \in SolverKinds
    /\ pc = "INIT"
    /\ status = "OK"
    /\ result = "NONE"
    /\ solver = NoSolver
    /\ ccfaces = {}
    /\ ccvertices = {}
    /\ todo = {}
    /\ written = {}
    /\ uvAtBorder = uvmap
    /\ hist = <<"INIT">>
    /\ call = NoCall

\* Lines 186-191: pin the border, return on failure.
ParameterizeBorder ==
    /\ pc = "INIT"
    /\ LET out == parameterize_border(mesh, uvmap, vpmap, m_borderParameterizer)
       IN  /\ uvmap' = out.uvmap
           /\ vpmap' = out.vpmap
           /\ uvAtBorder' = out.uvmap
           /\ status' = out.status
           /\ pc' = IF ReturnsStatus(out.status) THEN "ERROR" ELSE "BORDER_PINNED"
           /\ result' = IF ReturnsStatus(out.status) THEN out.status ELSE result
    /\ hist' = Append(hist, pc')
    /\ UNCHANGED <<call, inputs, solver, ccfaces, ccvertices, todo, written>>

\* Lines 193-211: construct and seed the system, enumerate the component.
InitializeSystem ==
    /\ pc = "BORDER_PINNED"
    /\ solver.state = "none"
    /\ LET nbVertices == num_vertices(mesh)
       IN  solver' = begin_system(
                        initialize_system_from_mesh_border(
                            set_least_squares(NewSolver(2 * nbVertices), TRUE),
                            mesh, uvmap, vimap, vpmap))
    /\ ccfaces' = connected_component(mesh)
    /\ ccvertices' = ComponentVertices(mesh)
    /\ todo' = connected_component(mesh)
    /\ UNCHANGED <<call, inputs, uvmap, vpmap, pc, status, result, written,
                   uvAtBorder, hist>>

\* Lines 212-217: one iteration of the loop over ccfaces.
SetupTriangle(fd) ==
    /\ pc = "BORDER_PINNED"
    /\ solver.state = "in_system"
    /\ fd \in todo
    /\ LET r == setup_triangle_relations(solver, mesh, fd, vimap)
       IN  /\ solver' = r.solver
           /\ status' = r.status
           /\ pc' = IF ReturnsStatus(r.status) THEN "ERROR" ELSE pc
           /\ result' = IF ReturnsStatus(r.status) THEN r.status ELSE result
    /\ todo' = todo \ {fd}
    /\ hist' = IF pc' # pc THEN Append(hist, pc') ELSE hist
    /\ UNCHANGED <<call, inputs, uvmap, vpmap, ccfaces, ccvertices, written,
                   uvAtBorder>>

\* Line 219: the loop is over, solver.end_system().
EndSystem ==
    /\ pc = "BORDER_PINNED"
    /\ solver.state = "in_system"
    /\ todo = {}
    /\ solver' = end_system(solver)
    /\ pc' = "SYSTEM_BUILT"
    /\ hist' = Append(hist, pc')
    /\ UNCHANGED <<call, inputs, uvmap, vpmap, status, result, ccfaces, ccvertices,
                   todo, written, uvAtBorder>>

\* Lines 221-226: solve, return on failure.
Solve ==
    /\ pc = "SYSTEM_BUILT"
    /\ LET r == solve(solver, m_linearAlgebra)
       IN  /\ solver' = r.solver
           /\ status' = StatusAfterSolve(r.ok, status)
    /\ pc' = IF ReturnsStatus(status') THEN "ERROR" ELSE "SOLVED"
    /\ result' = IF ReturnsStatus(status') THEN status' ELSE result
    /\ hist' = Append(hist, pc')
    /\ UNCHANGED <<call, inputs, uvmap, vpmap, ccfaces, ccvertices, todo, written,
                   uvAtBorder>>

\* Lines 231-236: one iteration of the loop over ccvertices.
WriteBack(vd) ==
    /\ pc = "SOLVED"
    /\ vd \in WriteBackVertices(mesh, ccvertices) \ written
    /\ uvmap' = [uvmap EXCEPT ![vd] = SolutionUV(solver, vimap, vd)]
    /\ solver' = value_read(value_read(solver, 2 * vimap[vd]),
                            2 * vimap[vd] + 1)
    /\ written' = written \cup {vd}
    /\ UNCHANGED <<call, inputs, vpmap, pc, status, result, ccfaces,
                   ccvertices, todo, uvAtBorder, hist>>

\* Line 237: return status.
Return ==
    /\ pc = "SOLVED"
    /\ WriteBackVertices(mesh, ccvertices) \subseteq written
    /\ pc' = "DONE"
    /\ result' = status
    /\ hist' = Append(hist, pc')
    /\ UNCHANGED <<call, inputs, uvmap, vpmap, status, solver, ccfaces, ccvertices,
                   todo, written, uvAtBorder>>

Next ==
    \/ ParameterizeBorder
    \/ InitializeSystem
    \/ \E fd \in faces(mesh) : SetupTriangle(fd)
    \/ EndSystem
    \/ Solve
    \/ \E vd \in vertices(mesh) : WriteBack(vd)
    \/ Return

Spec == Init /\ [][Next]_vars

(***************************************************************************)
(* Properties                                                              *)
(***************************************************************************)
Pipeline == <<"INIT", "BORDER_PINNED", "SYSTEM_BUILT", "SOLVED", "DONE">>

Outside(m) == vertices(m) \ ComponentVertices(m)

\* solve was invoked and reported failure.
SolveFailed == solver.nsolve > 0 /\ solver.state # "solved"

\* C1: when parameterize returns OK, the (u,v) of every vertex vd of the
\* component of face(opposite(bhd)) is
\* (variable(2*index(vd)).value(), variable(2*index(vd)+1).value()) of the
\* solved system, index being the caller's vertex index map.
C1_WriteBackReadsSolution ==
    (pc = "DONE" /\ result = "OK") =>
        \A vd \in ComponentVertices(mesh) :
            uvmap[vd] = <<solver.value[2 * vimap[vd]],
                          solver.value[2 * vimap[vd] + 1]>>

\* A successful call after which a free vertex of the component has got
\* new coordinates from the solver.
C1_Witness ==
    /\ pc = "DONE"
    /\ result = "OK"
    /\ \E vd \in ComponentVertices(mesh) :
          ~vpmap[vd] /\ uvmap[vd] # uvAtBorder[vd]

\* C2: whatever the mesh and the outcome, system initialisation, assembly,
\* solve and write-back never change the (u,v) of a vertex outside the
\* enumerated component: it keeps the value it had when parameterize_border
\* returned.
C2_OutsideUntouched ==
    \A vd \in Outside(mesh) : uvmap[vd] = uvAtBorder[vd]

\* A successful call on a mesh with vertices outside the component, all
\* vertices of the component written back and one of them changed.
C2_Witness ==
    /\ pc = "DONE"
    /\ Outside(mesh) # {}
    /\ written = ComponentVertices(mesh)
    /\ \E vd \in ComponentVertices(mesh) : uvmap[vd] # uvAtBorder[vd]

\* C3: if parameterize_border returns a status other than OK, parameterize
\* returns that status at once: no system is constructed, no variable is
\* seeded or locked, no row is added, solve is not invoked and nothing is
\* written back.
C3_BorderFailureReturnsAtOnce ==
    (pc # "INIT" /\ m_borderParameterizer.status # "OK") =>
        /\ hist = <<"INIT", "ERROR">>
        /\ result = m_borderParameterizer.status
        /\ solver = NoSolver
        /\ ccfaces = {}
        /\ written = {}
        /\ uvmap = uvAtBorder

\* A strategy that failed after pinning one vertex.
C3_Witness ==
    /\ pc = "ERROR"
    /\ m_borderParameterizer.status \in BorderErrors
    /\ \E vd \in vertices(mesh) : vpmap[vd]
    /\ result = m_borderParameterizer.status

\* C4: if solve reports failure, parameterize returns
\* ERROR_CANNOT_SOLVE_LINEAR_SYSTEM without writing back: every (u,v) is the
\* one parameterize_border left; and solve is invoked at most once per call.
C4_SolveFailureNoWriteBack ==
    /\ solver.nsolve <= 1
    /\ SolveFailed =>
          /\ pc = "ERROR"
          /\ result = "ERROR_CANNOT_SOLVE_LINEAR_SYSTEM"
          /\ written = {}
          /\ uvmap = uvAtBorder

\* A failed solve of a system with rows and two locked vertices.
C4_Witness ==
    /\ SolveFailed
    /\ pc = "ERROR"
    /\ solver.rows # <<>>
    /\ \E i \in DOMAIN solver.locked : solver.locked[i]

\* What C5 says of one state: the states gone through are a prefix of the
\* pipeline, possibly ended by ERROR; parameterize has returned exactly in
\* DONE and ERROR, and returned OK exactly in DONE; DONE means the border
\* was pinned with OK, every triangle of the component was assembled with OK
\* and solve returned true.
C5_State ==
    /\ pc = hist[Len(hist)]
    /\ \/ \E k \in 1..Len(Pipeline) : hist = SubSeq(Pipeline, 1, k)
       \/ \E k \in 1..(Len(Pipeline) - 1) :
             hist = Append(SubSeq(Pipeline, 1, k), "ERROR")
    /\ (result # "NONE") <=> (pc \in {"DONE", "ERROR"})
    /\ (result = "OK") <=> (pc = "DONE")
    /\ (pc = "DONE") =>
          /\ m_borderParameterizer.status = "OK"
          /\ todo = {}
          /\ {solver.rows[i].face : i \in 1..Len(solver.rows)}
                = connected_component(mesh)
          /\ solver.nsolve = 1
          /\ solver.state = "solved"
    /\ (pc = "ERROR") =>
          \/ m_borderParameterizer.status # "OK"
          \/ SolveFailed

\* C5: every execution goes through INIT, BORDER_PINNED, SYSTEM_BUILT,
\* SOLVED, DONE in this order without skipping or revisiting a state, ERROR
\* and DONE are terminal (no step is taken from them), and OK is returned if
\* and only if DONE was reached, that is border pinning, every triangle's
\* assembly and solve all succeeded.
C5_PipelineOrder ==
    /\ [](C5_State)
    /\ [][pc \notin {"ERROR", "DONE"}]_vars

\* A run that went through the whole pipeline and returned OK.
C5_Witness ==
    /\ hist = Pipeline
    /\ result = "OK"

Pinned(m, vp) == {vd \in vertices(m) : vp[vd]}

\* C6: while parameterize is past border pinning and assembles the system,
\* at least two vertices are pinned with distinct (u,v); when the strategy
\* has pinned fewer than two vertices parameterize ends in ERROR with the
\* strategy's error, no system constructed and solve not invoked.
C6_TwoPinsBeforeAssembly ==
    /\ (pc = "BORDER_PINNED") =>
          \E a, b \in Pinned(mesh, vpmap) : uvmap[a] # uvmap[b]
    /\ (pc # "INIT" /\ Cardinality(Pinned(mesh, vpmap)) < 2) =>
          /\ pc = "ERROR"
          /\ result \in BorderErrors
          /\ solver = NoSolver

\* Assembly under way with three pinned vertices.
C6_Witness ==
    /\ pc = "BORDER_PINNED"
    /\ solver.state = "in_system"
    /\ solver.rows # <<>>
    /\ Cardinality(Pinned(mesh, vpmap)) = 3

RowsOfPart(f, part) ==
    {i \in 1..Len(solver.rows) :
        solver.rows[i].face = f /\ solver.rows[i].part = part}

\* C7: when solve is invoked the system holds exactly 2*F rows, F the number
\* of faces of the enumerated component: each face of the component has
\* added one real and one imaginary row, once, and no other face any row.
C7_TwoRowsPerComponentFace ==
    (pc = "SYSTEM_BUILT" \/ solver.nsolve > 0) =>
        /\ Len(solver.rows) = 2 * Cardinality(connected_component(mesh))
        /\ \A f \in connected_component(mesh) :
              /\ Cardinality(RowsOfPart(f, "real")) = 1
              /\ Cardinality(RowsOfPart(f, "imaginary")) = 1
        /\ \A i \in 1..Len(solver.rows) :
              /\ solver.rows[i].face \in connected_component(mesh)
              /\ Len(solver.rows[i].coef) = 5

\* A system about to be solved, built from one face of a mesh of two.
C7_Witness ==
    /\ pc = "SYSTEM_BUILT"
    /\ Len(solver.rows) = 2
    /\ Len(mesh.facet) = 2

\* The single triangle (0,0,0), (1,0,0), (0,1,0) with v0 pinned at (0,0)
\* and v1 at (1,0).
UnitTriangleCase ==
    /\ mesh.point = <<  <<0, 0, 0>>, <<1, 0, 0>>, <<0, 1, 0>>  >>
    /\ Len(mesh.facet) = 1
    /\ m_borderParameterizer.status = "OK"
    /\ m_borderParameterizer.pins = (1 :> <<0, 0>>) @@ (2 :> <<1, 0>>)

UVIn(x, vd) == <<x[2 * vimap[vd]], x[2 * vimap[vd] + 1]>>

\* C8: on the single triangle (0,0,0), (1,0,0), (0,1,0) with v0 pinned at
\* (0,0) and v1 at (1,0), the assembled system has a least-squares solution,
\* every such solution gives v2 the (u,v) (0,1), and that is what a
\* successful call leaves in the (u,v) map.
C8_UnitTriangle ==
    UnitTriangleCase =>
        /\ (pc = "SYSTEM_BUILT") =>
              /\ Minimisers(solver.rows, solver.value, solver.locked) # {}
              /\ \A x \in Minimisers(solver.rows, solver.value, solver.locked) :
                    UVIn(x, 3) = <<0, 1>>
        /\ (solver.state = "solved") => UVIn(solver.value, 3) = <<0, 1>>
        /\ (pc = "DONE") => uvmap = <<  <<0, 0>>, <<1, 0>>, <<0, 1>>  >>

\* The call returned OK on the unit triangle and replaced the caller's
\* (u,v) of v2.
C8_Witness ==
    /\ UnitTriangleCase
    /\ pc = "DONE"
    /\ result = "OK"
    /\ uvAtBorder[3] # <<0, 1>>
    /\ uvmap[3] = <<0, 1>>

Flat(m) == \A vd \in vertices(m) : m.point[vd][3] = 0

Connected(m) == connected_component(m) = faces(m)

\* Twice the signed area of facet f in the plane z = 0.
SignedArea2(m, f) ==
    LET p0 == m.point[m.facet[f][1]]
        p1 == m.point[m.facet[f][2]]
        p2 == m.point[m.facet[f][3]]
    IN  (p1[1] - p0[1]) * (p2[2] - p0[2]) - (p2[1] - p0[1]) * (p1[2] - p0[2])

CounterClockwise(m) == \A f \in faces(m) : SignedArea2(m, f) > 0

\* The strategy pinned two vertices, each at its own (x,y).
TwoPinnedAtOwn ==
    /\ m_borderParameterizer.status = "OK"
    /\ Cardinality(DOMAIN m_borderParameterizer.pins) = 2
    /\ \A vd \in DOMAIN m_borderParameterizer.pins :
          m_borderParameterizer.pins[vd] = OwnUV(mesh, vd)

\* The unknown vector that gives every vertex its own (x,y).
OwnSolution ==
    [i \in 0..(2 * mesh.nv - 1) |->
        LET vd == CHOOSE w \in vertices(mesh) : vimap[w] = i \div 2
        IN  OwnUV(mesh, vd)[(i % 2) + 1]]

RoundTrip ==
    /\ \A i \in 1..Len(solver.rows) : Residual(solver.rows[i], OwnSolution) = 0
    /\ (pc = "DONE") => \A vd \in vertices(mesh) : uvmap[vd] = OwnUV(mesh, vd)

\* C9 as claimed: on a connected mesh in the plane z = 0 with two vertices
\* pinned at their own (x,y), the original (x,y) satisfy every assembled row
\* with zero residual and a successful call leaves (u,v) = (x,y) at every
\* vertex.
C9_RoundTripAnyFlatMesh ==
    (Flat(mesh) /\ Connected(mesh) /\ TwoPinnedAtOwn) => RoundTrip

\* C9 amended: the same, for meshes whose facets all run counter-clockwise
\* seen from +z (positive signed area in the plane z = 0).
C9_RoundTripCounterClockwise ==
    (Flat(mesh) /\ Connected(mesh) /\ CounterClockwise(mesh) /\ TwoPinnedAtOwn)
        => RoundTrip

\* A successful call on the flat square, both triangles assembled, whose
\* free vertices did not hold their own (x,y) before.
C9_Witness ==
    /\ Flat(mesh) /\ Connected(mesh) /\ CounterClockwise(mesh) /\ TwoPinnedAtOwn
    /\ mesh.nv = 4
    /\ Len(solver.rows) = 4
    /\ pc = "DONE"
    /\ \E vd \in vertices(mesh) : uvAtBorder[vd] # OwnUV(mesh, vd)

\* The system assembled face by face in the order of the face numbers.
RECURSIVE AssembleFrom(_, _, _, _)
AssembleFrom(sv, m, vi, fd) ==
    IF fd > Len(m.facet) THEN sv
    ELSE AssembleFrom(IF fd \in connected_component(m)
                      THEN setup_triangle_relations(sv, m, fd, vi).solver
                      ELSE sv,
                      m, vi, fd + 1)

CanonicalSystem(m, vi, uv, vp) ==
    end_system(
        AssembleFrom(
            begin_system(
                initialize_system_from_mesh_border(
                    set_least_squares(NewSolver(2 * num_vertices(m)), TRUE),
                    m, uv, vi, vp)),
            m, vi, 1))

ExpectedAfterSolve(m, vi, uv, r) ==
    IF ~r.ok
    THEN [result |-> "ERROR_CANNOT_SOLVE_LINEAR_SYSTEM", uvmap |-> uv]
    ELSE [result |-> "OK",
          uvmap |-> [vd \in vertices(m) |->
                        IF vd \in ComponentVertices(m)
                        THEN <<r.solver.value[2 * vi[vd]],
                               r.solver.value[2 * vi[vd] + 1]>>
                        ELSE uv[vd]]]

\* The status and (u,v) map the inputs determine, computed with the faces
\* and the vertices taken in ascending order.
ExpectedOutcome(m, vi, uv, vp, bp, la) ==
    IF bp.status # "OK"
    THEN [result |-> bp.status, uvmap |-> uv]
    ELSE ExpectedAfterSolve(m, vi, uv, solve(CanonicalSystem(m, vi, uv, vp), la))

Expected ==
    ExpectedOutcome(mesh, vimap, uvAtBorder, vpmap, m_borderParameterizer,
                    m_linearAlgebra)

\* C10: the status returned and the (u,v) map left by a call are determined
\* by the mesh, bhd, the index map, the maps as the strategy left them, the
\* strategy and the solver: they are the same in whichever order the faces
\* of the component are assembled and its vertices written back.
C10_Deterministic ==
    (pc \in {"DONE", "ERROR"}) =>
        /\ result = Expected.result
        /\ uvmap = Expected.uvmap

\* A successful call that assembled the second face before the first.
C10_Witness ==
    /\ pc = "DONE"
    /\ Len(solver.rows) = 4
    /\ solver.rows[1].face > solver.rows[3].face
    /\ uvmap # uvAtBorder


\* The index map gives no two vertices of the mesh the same index.
Injective(m, vi) ==
    \A v, w \in vertices(m) : vi[v] = vi[w] => v = w

\* initialize_system_from_mesh_border has run and solve has not.
Initialized == solver.state \in {"in_system", "constructed"} /\ solver.nsolve = 0

\* The unknowns of every vertex of the mesh hold its (u,v) and are locked
\* exactly when it is pinned.
SeededAndLocked ==
    \A v \in vertices(mesh) :
        /\ solver.value[2 * vimap[v]] = uvmap[v][1]
        /\ solver.value[2 * vimap[v] + 1] = uvmap[v][2]
        /\ solver.locked[2 * vimap[v]] <=> vpmap[v]
        /\ solver.locked[2 * vimap[v] + 1] <=> vpmap[v]

Parked ==
    /\ mesh = TriMesh
    /\ vimap = IdentityIndex(TriMesh)
    /\ uvmap = [vd \in vertices(TriMesh) |-> <<0, 0>>]
    /\ vpmap = [vd \in vertices(TriMesh) |-> FALSE]
    /\ m_borderParameterizer = [status |-> "ERROR_BORDER_TOO_SHORT", pins |-> <<>>]
    /\ m_linearAlgebra = "fails"
    /\ pc = "INIT"
    /\ status = "OK"
    /\ result = "NONE"
    /\ solver = NoSolver
    /\ ccfaces = {}
    /\ ccvertices = {}
    /\ todo = {}
    /\ written = {}
    /\ uvAtBorder = uvmap
    /\ hist = <<"INIT">>

\* Local bases with z0 = (0,0) and z1 = (a,0).
Bases ==
    {<<  <<0, 0>>, <<a, 0>>, <<c, d>>  >> :
        a \in 0..MaxZ, c \in (-MaxZ)..MaxZ, d \in (-MaxZ)..MaxZ}

\* The indices id0, id1, id2 of the three vertices of a triangle.
IdTriples ==
    {t \in (0..2) \X (0..2) \X (0..2) : t[1] # t[2] /\ t[1] # t[3] /\ t[2] # t[3]}

InitRows ==
    /\ Parked
    /\ call \in {[op |-> "RowsOfBasis", fd |-> 1, ids |-> t, z |-> z,
                  done |-> FALSE, rows |-> <<>>] : t \in IdTriples, z \in Bases}

\* Lines 390-431 of setup_triangle_relations on the basis call.z.
ApplyRowsOfBasis ==
    /\ call.op = "RowsOfBasis"
    /\ ~call.done
    /\ call' = [call EXCEPT
                  !.done = TRUE,
                  !.rows = RowsOfBasis(call.fd, call.ids[1], call.ids[2],
                                       call.ids[3], call.z)]
    /\ UNCHANGED pvars

NextRows == ApplyRowsOfBasis

SpecRows == InitRows /\ [][NextRows]_vars

ComplexMul(p, q) == <<p[1] * q[1] - p[2] * q[2], p[1] * q[2] + p[2] * q[1]>>

Sub2(p, q) == <<p[1] - q[1], p[2] - q[2]>>

\* (Z1 - Z0)(U2 - U0) - (Z2 - Z0)(U1 - U0) as <<real part, imaginary part>>.
ConformalityDefect(z, U0, U1, U2) ==
    Sub2(ComplexMul(Sub2(z[2], z[1]), Sub2(U2, U0)),
         ComplexMul(Sub2(z[3], z[1]), Sub2(U1, U0)))

\* (u,v) of the vertex of index id in the unknown vector x.
UVOfIndex(x, id) == <<x[2 * id], x[2 * id + 1]>>

\* The coefficients C11 lists: coef is <<on u(id0), v(id0), u(id1), v(id1),
\* u(id2), v(id2)>>.
ListedCoefficient(ids, coef, i) ==
    IF i = 2 * ids[1] THEN coef[1]
    ELSE IF i = 2 * ids[1] + 1 THEN coef[2]
    ELSE IF i = 2 * ids[2] THEN coef[3]
    ELSE IF i = 2 * ids[2] + 1 THEN coef[4]
    ELSE IF i = 2 * ids[3] THEN coef[5]
    ELSE IF i = 2 * ids[3] + 1 THEN coef[6]
    ELSE 0

RowIsListed(row, ids, coef) ==
    \A i \in 0..5 : RowCoef(row, i) = ListedCoefficient(ids, coef, i)

RowsAreDefect(rws, ids, z) ==
    \A x \in [0..5 -> 0..MaxX] :
        <<Residual(rws[1], x), Residual(rws[2], x)>>
            = ConformalityDefect(z, UVOfIndex(x, ids[1]), UVOfIndex(x, ids[2]),
                                 UVOfIndex(x, ids[3]))

RowsAreListed(rws, ids, a, c, d) ==
    /\ Len(rws) = 2
    /\ rws[1].part = "real"
    /\ rws[2].part = "imaginary"
    /\ RowIsListed(rws[1], ids, <<-a + c, -d, -c, d, a, 0>>)
    /\ RowIsListed(rws[2], ids, <<d, -a + c, -d, -c, 0, a>>)

\* C11: for indices id0, id1, id2 and a basis with (a,0) = z1 - z0 and
\* (c,d) = z2 - z0, the rows appended are a real row with -a+c on u(id0), -d
\* on v(id0), -c on u(id1), d on v(id1), a on u(id2), and an imaginary row
\* with d on u(id0), -a+c on v(id0), -d on u(id1), -c on v(id1), a on v(id2),
\* u in slot 2*id and v in slot 2*id+1; at every assignment of the unknowns
\* they evaluate to the real and the imaginary part of
\* (Z1-Z0)(U2-U0) - (Z2-Z0)(U1-U0).
C11_RowsAreConformality ==
    (call.op = "RowsOfBasis" /\ call.done) =>
        /\ RowsAreListed(call.rows, call.ids, call.z[2][1], call.z[3][1],
                         call.z[3][2])
        /\ RowsAreDefect(call.rows, call.ids, call.z)

\* The rows of a basis with a, c, d all non-zero and d negative, the
\* vertices' indices not in ascending order.
C11_Witness ==
    /\ call.op = "RowsOfBasis"
    /\ call.done
    /\ call.z = <<  <<0, 0>>, <<1, 0>>, <<1, -1>>  >>
    /\ call.ids = <<2, 0, 1>>
    /\ Len(call.rows) = 2


(***************************************************************************)
(* project_triangle applied on its own.                                    *)
(***************************************************************************)
GridPoints == (0..MaxP) \X (0..MaxP) \X (0..MaxP)

\* The triangles of the grid on which the square roots and the divisions of
\* project_triangle are exact; p0 = p1 and collinear points are among them.
GridTriangles ==
    {t \in GridPoints \X GridPoints \X GridPoints :
        ExactTriangle(t[1], t[2], t[3])}

InitProject ==
    /\ Parked
    /\ call \in {[op |-> "project_triangle", p |-> t, done |-> FALSE,
                  z |-> <<>>] : t \in GridTriangles}

ApplyProjectTriangle ==
    /\ call.op = "project_triangle"
    /\ ~call.done
    /\ call' = [call EXCEPT
                  !.done = TRUE,
                  !.z = project_triangle(call.p[1], call.p[2], call.p[3])]
    /\ UNCHANGED pvars

NextProject == ApplyProjectTriangle

SpecProject == InitProject /\ [][NextProject]_vars

\* p0, p1, p2 lie on one line (or coincide).
Collinear(p0, p1, p2) ==
    cross_product(Sub3(p1, p0), Sub3(p2, p0)) = <<0, 0, 0>>

\* C13: for every triangle given to project_triangle, p0 = p1 and collinear
\* points included, z0 = (0,0) and z1.y = 0, so that b = z1.y - z0.y is 0
\* as setup_triangle_relations asserts; moreover z2.y >= 0 and z1.x >= 0.
C13_LocalBasis ==
    (call.op = "project_triangle" /\ call.done) =>
        /\ call.z[1] = <<0, 0>>
        /\ call.z[2][2] = 0
        /\ call.z[2][2] - call.z[1][2] = 0
        /\ call.z[3][2] >= 0
        /\ call.z[2][1] >= 0

\* The basis of three distinct collinear points.
C13_Witness ==
    /\ call.op = "project_triangle"
    /\ call.done
    /\ call.p[1] # call.p[2]
    /\ call.p[3] # call.p[1]
    /\ call.p[3] # call.p[2]
    /\ Collinear(call.p[1], call.p[2], call.p[3])
    /\ call.z[3][2] = 0


(***************************************************************************)
(* Assembly in the presence of zero-area triangles.                        *)
(***************************************************************************)
ZeroArea(m, f) ==
    Collinear(m.point[m.facet[f][1]], m.point[m.facet[f][2]],
              m.point[m.facet[f][3]])

\* The mesh made of the facet f of m alone.
SingleFacetMesh(m, f) == [m EXCEPT !.facet = <<m.facet[f]>>, !.seed = 1]

\* The system as initialize_system_from_mesh_border leaves it.
SeededSystem ==
    initialize_system_from_mesh_border(
        set_least_squares(NewSolver(2 * num_vertices(mesh)), TRUE),
        mesh, uvmap, vimap, vpmap)

\* Row i of the system has the coefficients its facet gets when it is the
\* only facet of the mesh.
RowOfFacetAlone(i) ==
    \E k \in 1..2 :
        solver.rows[i].coef
            = TriangleRows(SingleFacetMesh(mesh, solver.rows[i].face), 1,
                           vimap)[k].coef

\* C14: setup_triangle_relations returns OK for every triangle, zero-area
\* ones included, and only appends two rows: during and after assembly the
\* status is OK, the system holds two rows per assembled facet, every row
\* has the coefficients its facet gets in a mesh without the other facets,
\* and the values and locks of the variables are those the initialisation
\* left.
C14_AssemblyOnlyAppendsRows ==
    (solver.state \in {"in_system", "constructed"} /\ solver.nsolve = 0) =>
        /\ status = "OK"
        /\ pc \in {"BORDER_PINNED", "SYSTEM_BUILT"}
        /\ Len(solver.rows) = 2 * Cardinality(ccfaces \ todo)
        /\ \A i \in 1..Len(solver.rows) : RowOfFacetAlone(i)
        /\ solver.value = SeededSystem.value
        /\ solver.locked = SeededSystem.locked

\* A system whose first two rows come from a zero-area triangle and whose
\* next two from a triangle with area.
C14_Witness ==
    /\ pc = "SYSTEM_BUILT"
    /\ Len(solver.rows) = 4
    /\ ZeroArea(mesh, solver.rows[1].face)
    /\ ~ZeroArea(mesh, solver.rows[3].face)
    /\ \E i \in DOMAIN solver.locked : solver.locked[i]


(***************************************************************************)
(* Calls made through the free function parameterize.                      *)
(***************************************************************************)
\* The index map is one the free function builds for this mesh and bhd.
ViaFreeFunction ==
    vimap \in {FreeFunctionIndex(mesh, o) :
                  o \in Orders(connected_component(mesh))}

\* C15: in a call made through the free function, every pinned vertex of
\* the processed component keeps the (u,v) the strategy assigned to it: once
\* the system is seeded its two unknowns are locked and hold that (u,v),
\* through assembly and solve, and after a successful call the (u,v) map
\* holds it; also when the mesh has vertices outside the component.
C15_PinnedKeepsStrategyUV ==
    ViaFreeFunction =>
        \A vd \in ComponentVertices(mesh) \cap DOMAIN m_borderParameterizer.pins :
            /\ (solver.state # "none") =>
                  /\ solver.locked[2 * vimap[vd]]
                  /\ solver.locked[2 * vimap[vd] + 1]
                  /\ UVIn(solver.value, vd) = m_borderParameterizer.pins[vd]
            /\ (pc = "DONE" /\ result = "OK") =>
                  uvmap[vd] = m_borderParameterizer.pins[vd]

(***************************************************************************)
(* Parameterization::Vertices applied to a sequence of faces, one face per *)
(* step; the faces may repeat and need not form a component.               *)
(***************************************************************************)
MaxCalls == 4

InitVertices ==
    /\ Parked
    /\ call \in {[op |-> "Vertices", m |-> m, faces |-> <<>>,
                  st |-> VerticesInit, prev |-> <<>>] : m \in Meshes}

\* operator()(fd) on the functor's state; prev keeps the map before the call.
ApplyVertices ==
    /\ call.op = "Vertices"
    /\ Len(call.faces) < MaxCalls
    /\ \E fd \in faces(call.m) :
          call' = [call EXCEPT
                     !.faces = Append(call.faces, fd),
                     !.prev = call.st.map,
                     !.st = VerticesCall(call.m, call.st, fd)]
    /\ UNCHANGED pvars

NextVertices == ApplyVertices

SpecVertices == InitVertices /\ [][NextVertices]_vars

\* The vertices of the faces fs[k..], in the order the functor meets them.
RECURSIVE Encounters(_, _, _)
Encounters(m, fs, k) ==
    IF k > Len(fs) THEN <<>>
    ELSE vertices_around_face(m, fs[k]) \o Encounters(m, fs, k + 1)

\* s[k..] appended to acc without the elements already there.
RECURSIVE FirstEncounters(_, _, _)
FirstEncounters(s, k, acc) ==
    IF k > Len(s) THEN acc
    ELSE IF \E i \in 1..Len(acc) : acc[i] = s[k]
         THEN FirstEncounters(s, k + 1, acc)
         ELSE FirstEncounters(s, k + 1, Append(acc, s[k]))

\* C16: after the Vertices functor has been applied to any sequence of
\* faces, its map is a bijection from the distinct vertices seen onto
\* 0..k-1, numbered in the order of first encounter, and the last call left
\* every index given earlier as it was; and when the sequence enumerates the
\* component once, the index the free function hands on is injective on the
\* component's vertices with values in [0, n).
C16_IndexIsFirstEncounterBijection ==
    (call.op = "Vertices") =>
        LET enc == FirstEncounters(Encounters(call.m, call.faces, 1), 1, <<>>)
            k   == Len(enc)
            map == call.st.map
        IN  /\ DOMAIN map = {enc[i] : i \in 1..k}
            /\ {map[vd] : vd \in DOMAIN map} = 0..(k - 1)
            /\ \A vd, wd \in DOMAIN map : map[vd] = map[wd] => vd = wd
            /\ \A i \in 1..k : map[enc[i]] = i - 1
            /\ \A vd \in DOMAIN call.prev : map[vd] = call.prev[vd]
            /\ (call.faces \in Orders(connected_component(call.m))) =>
                  LET vi == FreeFunctionIndex(call.m, call.faces)
                  IN  \A vd, wd \in ComponentVertices(call.m) :
                         /\ vi[vd] = map[vd]
                         /\ vi[vd] \in 0..(num_vertices(call.m) - 1)
                         /\ (vi[vd] = vi[wd] => vd = wd)

\* A face met again after another face that shares vertices with it, four
\* distinct vertices numbered.
C16_Witness ==
    /\ call.op = "Vertices"
    /\ \E i, j \in 1..Len(call.faces) :
          /\ i + 1 < j
          /\ call.faces[i] = call.faces[j]
          /\ call.faces[i + 1] # call.faces[i]
          /\ FaceVertexSet(call.m, call.faces[i])
                \cap FaceVertexSet(call.m, call.faces[i + 1]) # {}
    /\ Cardinality(DOMAIN call.st.map) = 4
    /\ call.faces \notin Orders(connected_component(call.m))

(***************************************************************************)
(* The order of the calls parameterize makes on the solver.                *)
(***************************************************************************)
\* The position in the protocol after the call c made at position q:
\* construct, set_least_squares(true), set_value and lock, begin_system,
\* rows of begin_row, five add_coefficient, end_row, end_system, solve,
\* value reads after a solve that returned true.
ProtocolStep(q, c) ==
    CASE q = "start"   /\ c = "construct"               -> "constructed"
      [] q = "constructed" /\ c = "set_least_squares(true)" -> "seeding"
      [] q = "seeding" /\ c \in {"set_value", "lock"}   -> "seeding"
      [] q = "seeding" /\ c = "begin_system"            -> "system"
      [] q = "system"  /\ c = "begin_row"               -> "row0"
      [] q = "row0"    /\ c = "add_coefficient"         -> "row1"
      [] q = "row1"    /\ c = "add_coefficient"         -> "row2"
      [] q = "row2"    /\ c = "add_coefficient"         -> "row3"
      [] q = "row3"    /\ c = "add_coefficient"         -> "row4"
      [] q = "row4"    /\ c = "add_coefficient"         -> "row5"
      [] q = "row5"    /\ c = "end_row"                 -> "system"
      [] q = "system"  /\ c = "end_system"              -> "ended"
      [] q = "ended"   /\ c = "solve_true"              -> "solved"
      [] q = "ended"   /\ c = "solve_false"             -> "failed"
      [] q = "solved"  /\ c = "value"                   -> "solved"
      [] OTHER                                          -> "bad"

RECURSIVE ProtocolRun(_, _, _)
ProtocolRun(q, cs, k) ==
    IF k > Len(cs) THEN q
    ELSE ProtocolRun(ProtocolStep(q, cs[k]), cs, k + 1)

\* How many calls of solve() the list cs holds.
Solves(cs) ==
    Cardinality({k \in 1..Len(cs) : cs[k] \in {"solve_true", "solve_false"}})

\* parameterize has returned.
Returned == pc \in {"DONE", "ERROR"}

\* The calls made so far are in protocol order.
InProtocol == ProtocolRun("start", solver.calls, 1) # "bad"

\* The calls of a finished execution: the whole protocol up to a solve.
ProtocolCompleted ==
    /\ ProtocolRun("start", solver.calls, 1) \in {"solved", "failed"}
    /\ Solves(solver.calls) = 1
    /\ solver.size = 2 * num_vertices(mesh)

\* The statement for every execution: when parameterize has returned, the
\* solver has been constructed, set to least squares and solved once.
C17_SolverProtocol ==
    /\ InProtocol
    /\ Returned => ProtocolCompleted

\* C17: in every execution of parameterize in which parameterize_border
\* returns OK the solver calls follow the protocol: construct(2n) and
\* set_least_squares(true) first; every set_value and lock before
\* begin_system; every begin_row closed by its end_row with exactly five
\* add_coefficient in between, all rows between begin_system and
\* end_system; solve exactly once and only after end_system; value() read
\* only after solve returned true.  In an execution in which
\* parameterize_border does not return OK no solver is constructed and no
\* solver call is made.
C17_SolverProtocolWhenBorderOK ==
    /\ InProtocol
    /\ (Returned /\ m_borderParameterizer.status = "OK") => ProtocolCompleted
    /\ (Returned /\ m_borderParameterizer.status # "OK") => solver.calls = <<>>

\* A successful call on a component of two faces: four rows assembled,
\* locks set, the solve returned true and values were read.
C17_Witness ==
    /\ pc = "DONE"
    /\ result = "OK"
    /\ Len(solver.rows) = 4
    /\ \E k \in 1..Len(solver.calls) : solver.calls[k] = "lock"
    /\ \E k \in 1..Len(solver.calls) : solver.calls[k] = "value"
    /\ ProtocolRun("start", solver.calls, 1) = "solved"

(***************************************************************************)
(* Apollonius_graph_2: Vertex_conflict8_2, the incircle predicate of a     *)
(* query site q against the tritangent circle of p1, p2, p3, with its two  *)
(* Method_tag variants.  A site is [x, y, weight].                         *)
(***************************************************************************)
MaxC == 1

MaxW == 2

Sites == [x : 0..MaxC, y : 0..MaxC, weight : 0..MaxW]

\* CGAL::sign as -1, 0, 1 and CGAL::square.
sign(a) == IF a > 0 THEN 1 ELSE IF a < 0 THEN -1 ELSE 0

square(a) == a * a

det2x2_by_formula(a00, a01, a10, a11) == a00 * a11 - a10 * a01

\* The exact sign of A + B * sqrt(G) for G >= 0.
SignWithSqrt(A, B, G) ==
    IF B = 0 \/ G = 0 THEN sign(A)
    ELSE IF A = 0 THEN sign(B)
    ELSE IF sign(A) = sign(B) THEN sign(A)
    ELSE sign(A) * sign(square(A) - square(B) * G)

\* predicate(..., Field_with_sqrt_tag) on a field with exact square roots.
predicate_Field_with_sqrt(Exp, Eyp, Erp, Exrp, Eyrp, Exyp) ==
    LET G == square(Exp) + square(Eyp) - square(Erp)
    IN  SignWithSqrt(Exp * Exrp + Eyp * Eyrp, Exyp, G)

\* predicate(..., Integral_domain_without_division_tag).
predicate_Integral_domain_without_division(Exp, Eyp, Erp, Exrp, Eyrp, Exyp) ==
    LET sA == sign(Exp * Exrp + Eyp * Eyrp)
        sB == sign(Exyp)
    IN  IF sA = 0 THEN sB
        ELSE IF sB = 0 THEN sA
        ELSE IF sA = sB THEN sA
        ELSE sA * sign(square(Exrp) + square(Eyrp) - square(Exyp))

\* The quantities operator()(p1, p2, p3, q) hands to predicate.
ConflictTerms(p1, p2, p3, q) ==
    LET xj == p2.x - p1.x
        xk == p3.x - p1.x
        xl == q.x - p1.x
        yj == p2.y - p1.y
        yk == p3.y - p1.y
        yl == q.y - p1.y
        rj == p2.weight - p1.weight
        rk == p3.weight - p1.weight
        rl == q.weight - p1.weight
        pj == square(xj) + square(yj) - square(rj)
        pk == square(xk) + square(yk) - square(rk)
        pl == square(xl) + square(yl) - square(rl)
        Exp == det2x2_by_formula(xj, pj, xk, pk)
        Eyp == det2x2_by_formula(yj, pj, yk, pk)
        Erp == det2x2_by_formula(rj, pj, rk, pk)
        Exy == det2x2_by_formula(xj, yj, xk, yk)
        Exr == det2x2_by_formula(xj, rj, xk, rk)
        Eyr == det2x2_by_formula(yj, rj, yk, rk)
    IN  [Exp |-> Exp, Eyp |-> Eyp, Erp |-> Erp,
         Exyp |-> xl * Eyp - yl * Exp + pl * Exy,
         Exrp |-> xl * Erp - rl * Exp + pl * Exr,
         Eyrp |-> yl * Erp - rl * Eyp + pl * Eyr]

\* G = Exp^2 + Eyp^2 - Erp^2 of a call.
GOf(e) == square(e.Exp) + square(e.Eyp) - square(e.Erp)

Signs == {-1, 0, 1}

InitConflict ==
    /\ Parked
    /\ call \in {[op |-> "Vertex_conflict8_2", p1 |-> p1, p2 |-> p2,
                  p3 |-> p3, q |-> q,
                  with_sqrt |-> <<>>, without_division |-> <<>>] :
                    p1 \in Sites, p2 \in Sites, p3 \in Sites, q \in Sites}

\* operator() with Method_tag = Field_with_sqrt_tag; the square root of a
\* negative G is not defined and any sign may come out.  A result is kept
\* as a sequence of one sign, <<>> before the call.
ApplyWithSqrt ==
    /\ call.op = "Vertex_conflict8_2"
    /\ call.with_sqrt = <<>>
    /\ LET e == ConflictTerms(call.p1, call.p2, call.p3, call.q)
       IN  \E s \in Signs :
              /\ GOf(e) >= 0 =>
                    s = predicate_Field_with_sqrt(e.Exp, e.Eyp, e.Erp,
                                                  e.Exrp, e.Eyrp, e.Exyp)
              /\ call' = [call EXCEPT !.with_sqrt = <<s>>]
    /\ UNCHANGED pvars

\* operator() with Method_tag = Integral_domain_without_division_tag.
ApplyWithoutDivision ==
    /\ call.op = "Vertex_conflict8_2"
    /\ call.without_division = <<>>
    /\ LET e == ConflictTerms(call.p1, call.p2, call.p3, call.q)
       IN  call' = [call EXCEPT !.without_division =
                       <<predicate_Integral_domain_without_division(
                             e.Exp, e.Eyp, e.Erp, e.Exrp, e.Eyrp, e.Exyp)>>]
    /\ UNCHANGED pvars

NextConflict == ApplyWithSqrt \/ ApplyWithoutDivision

SpecConflict == InitConflict /\ [][NextConflict]_vars

\* C18: for sites with integer coordinates and weights and G >= 0,
\* operator()(p1, p2, p3, q) returns the same sign with the division-free
\* predicate as with the square-root predicate, the sign of
\* Exp*Exrp + Eyp*Eyrp + Exyp*sqrt(G).
C18_SamePredicate ==
    (/\ call.op = "Vertex_conflict8_2"
     /\ call.with_sqrt # <<>>
     /\ call.without_division # <<>>
     /\ GOf(ConflictTerms(call.p1, call.p2, call.p3, call.q)) >= 0) =>
        LET e == ConflictTerms(call.p1, call.p2, call.p3, call.q)
        IN  /\ call.without_division = call.with_sqrt
            /\ call.with_sqrt[1] =
                  SignWithSqrt(e.Exp * e.Exrp + e.Eyp * e.Eyrp, e.Exyp, GOf(e))

=============================================================================
